---- MODULE Spec2Model ----
(***************************************************************************)
(* State-machine model of the platformer simulation in src/game:          *)
(* level loading (level.py), Player and Enemy motion (entities.py) and    *)
(* the per-frame orchestration of the main loop (main.py).                *)
(*                                                                         *)
(* Numbers.  dt, velocity.y and coyote_timer are binary doubles in the     *)
(* program (Python floats, pygame.Vector2 components); the model holds     *)
(* them as binary64 values and adds, multiplies, compares and truncates    *)
(* them with the rounding of the program.  The frame clock returns whole   *)
(* milliseconds and dt = clock.tick(FPS) / 1000.0: a frame time is given   *)
(* in milliseconds and divided as the program divides it.  velocity.x      *)
(* only takes whole values (input_axis * MOVE_SPEED, +140 or -140) and is  *)
(* an integer of px/s; rectangle coordinates are integers of pixels        *)
(* (pygame.Rect).                                                          *)
(***************************************************************************)
EXTENDS Integers, Sequences, FiniteSets, TLC

(***************************************************************************)
(* Natural numbers of any size: sequences of limbs, least significant      *)
(* first, each in 0 .. LimbBase - 1, without leading zero limbs (0 is      *)
(* << >>).                                                                 *)
(***************************************************************************)
LimbBits == 14
LimbBase == 2 ^ LimbBits

Limb(a, i) == IF i <= Len(a) THEN a[i] ELSE 0

RECURSIVE BStrip(_)
BStrip(a) ==
  IF a = << >> THEN a
  ELSE IF a[Len(a)] = 0 THEN BStrip(SubSeq(a, 1, Len(a) - 1))
  ELSE a

\* Carries (or borrows) through a sequence of integers.
RECURSIVE BCarry(_, _)
BCarry(c, carry) ==
  IF c = << >>
  THEN IF carry = 0 THEN << >>
       ELSE << carry % LimbBase >> \o BCarry(<< >>, carry \div LimbBase)
  ELSE << (c[1] + carry) % LimbBase >>
         \o BCarry(Tail(c), (c[1] + carry) \div LimbBase)

BFromInt(n) == BStrip(BCarry(<< n >>, 0))

RECURSIVE BToInt(_)
BToInt(a) == IF a = << >> THEN 0 ELSE a[1] + LimbBase * BToInt(Tail(a))

BLen(a, b) == IF Len(a) >= Len(b) THEN Len(a) ELSE Len(b)

BAdd(a, b) == BStrip(BCarry([i \in 1 .. BLen(a, b) |-> Limb(a, i) + Limb(b, i)], 0))

\* a - b for a >= b
BSub(a, b) == BStrip(BCarry([i \in 1 .. BLen(a, b) |-> Limb(a, i) - Limb(b, i)], 0))

\* -1, 0, 1 as a < b, a = b, a > b
RECURSIVE BCmpFrom(_, _, _)
BCmpFrom(a, b, i) ==
  IF i = 0 THEN 0
  ELSE IF a[i] < b[i] THEN -1
  ELSE IF a[i] > b[i] THEN 1
  ELSE BCmpFrom(a, b, i - 1)

BCmp(a, b) ==
  IF Len(a) < Len(b) THEN -1
  ELSE IF Len(a) > Len(b) THEN 1
  ELSE BCmpFrom(a, b, Len(a))

\* a * k for 0 <= k < LimbBase
BMulSmall(a, k) == BStrip(BCarry([i \in 1 .. Len(a) |-> a[i] * k], 0))

\* a * LimbBase^n
BShlLimbs(a, n) == IF a = << >> THEN a ELSE [i \in 1 .. n |-> 0] \o a

RECURSIVE BMulFrom(_, _, _)
BMulFrom(a, b, j) ==
  IF j > Len(b) THEN << >>
  ELSE BAdd(BShlLimbs(BMulSmall(a, b[j]), j - 1), BMulFrom(a, b, j + 1))

BMul(a, b) == BMulFrom(a, b, 1)

\* a * 2^n
BShl(a, n) == BShlLimbs(BMulSmall(a, 2 ^ (n % LimbBits)), n \div LimbBits)

\* The quotient of a by d, 0 < d < LimbBase; r is the pair (quotient limbs
\* found so far, remainder) carried from the most significant limb down.
RECURSIVE BDivSmallFrom(_, _, _, _)
BDivSmallFrom(a, d, i, r) ==
  IF i = 0 THEN r
  ELSE BDivSmallFrom(a, d, i - 1,
         [quot |-> << (r.rem * LimbBase + a[i]) \div d >> \o r.quot,
          rem |-> (r.rem * LimbBase + a[i]) % d])

BDivSmall(a, d) == BDivSmallFrom(a, d, Len(a), [quot |-> << >>, rem |-> 0])

\* floor(a / 2^n)
BShr(a, n) ==
  IF n \div LimbBits >= Len(a) THEN << >>
  ELSE BStrip(BDivSmall(SubSeq(a, n \div LimbBits + 1, Len(a)),
                        2 ^ (n % LimbBits)).quot)

\* The number of bits of a: 0 for 0, else k with 2^(k-1) <= a < 2^k.
BBitLen(a) ==
  IF a = << >> THEN 0
  ELSE (Len(a) - 1) * LimbBits
       + (CHOOSE k \in 1 .. LimbBits : 2 ^ (k - 1) <= a[Len(a)] /\ a[Len(a)] < 2 ^ k)

(***************************************************************************)
(* IEEE 754 binary64 values: [neg, man, exp] is (-1)^neg * man * 2^exp     *)
(* with man a natural of exactly MantBits bits, or 0 (with exp 0, neg      *)
(* FALSE).  Results are rounded to nearest, ties to even.                  *)
(***************************************************************************)
MantBits == 53

FZero == [neg |-> FALSE, man |-> << >>, exp |-> 0]

\* The binary64 nearest to (-1)^neg * m * 2^e.
FRoundUp(q, rem, half) ==
  \/ BCmp(rem, half) = 1
  \/ BCmp(rem, half) = 0 /\ q[1] % 2 = 1

FRoundShift(neg, m, e, r) ==
  LET q == BShr(m, r)
      q2 == IF FRoundUp(q, BSub(m, BShl(q, r)), BShl(<< 1 >>, r - 1))
            THEN BAdd(q, << 1 >>) ELSE q
  IN IF BBitLen(q2) > MantBits
     THEN [neg |-> neg, man |-> BShr(q2, 1), exp |-> e + r + 1]
     ELSE [neg |-> neg, man |-> q2, exp |-> e + r]

FRound(neg, m, e) ==
  IF m = << >> THEN FZero
  ELSE IF BBitLen(m) <= MantBits
  THEN [neg |-> neg, man |-> BShl(m, MantBits - BBitLen(m)),
        exp |-> e - (MantBits - BBitLen(m))]
  ELSE FRoundShift(neg, m, e, BBitLen(m) - MantBits)

FIsZero(x) == x.man = << >>
FNeg(x) == IF FIsZero(x) THEN x ELSE [x EXCEPT !.neg = ~@]

FMinExp(x, y) == IF x.exp <= y.exp THEN x.exp ELSE y.exp

\* x + y
FAddAligned(x, y, a, b, e) ==
  IF x.neg = y.neg THEN FRound(x.neg, BAdd(a, b), e)
  ELSE IF BCmp(a, b) = 1 THEN FRound(x.neg, BSub(a, b), e)
  ELSE IF BCmp(a, b) = -1 THEN FRound(y.neg, BSub(b, a), e)
  ELSE FZero

FAdd(x, y) ==
  IF FIsZero(x) THEN y
  ELSE IF FIsZero(y) THEN x
  ELSE FAddAligned(x, y, BShl(x.man, x.exp - FMinExp(x, y)),
                   BShl(y.man, y.exp - FMinExp(x, y)), FMinExp(x, y))

\* x * y
FMul(x, y) ==
  IF FIsZero(x) \/ FIsZero(y) THEN FZero
  ELSE FRound(x.neg # y.neg, BMul(x.man, y.man), x.exp + y.exp)

\* -1, 0, 1 as x < 0, x = 0, x > 0
FSign(x) == IF FIsZero(x) THEN 0 ELSE IF x.neg THEN -1 ELSE 1

\* x <= y, x < y
FLe(x, y) == FSign(FAdd(x, FNeg(y))) <= 0
FLt(x, y) == FSign(FAdd(x, FNeg(y))) < 0

\* int(x): the integer part, rounded toward 0
FTrunc(x) ==
  IF FIsZero(x) THEN 0
  ELSE (IF x.neg THEN -1 ELSE 1)
       * BToInt(IF x.exp >= 0 THEN BShl(x.man, x.exp) ELSE BShr(x.man, -x.exp))

\* float(n)
FloatOfInt(n) == FRound(n < 0, BFromInt(IF n < 0 THEN -n ELSE n), 0)

\* n / d (true division of integers, d in 1 .. LimbBase - 1): the quotient
\* to 6 limbs under the point, with a last bit that says the division left a
\* remainder.
FloatOfRatioFrom(neg, r) ==
  FRound(neg, BAdd(BMulSmall(BStrip(r.quot), 2), IF r.rem = 0 THEN << >> ELSE << 1 >>),
         -(6 * LimbBits) - 1)

FloatOfRatio(n, d) ==
  FloatOfRatioFrom(n < 0, BDivSmall(BShlLimbs(BFromInt(IF n < 0 THEN -n ELSE n), 6), d))

(***************************************************************************)
(* game/constants.py is imported by every module but is not among the      *)
(* source files; TILE_SIZE is the value the specification's scenario       *)
(* uses, the others are values of the documented kind (positive gravity,   *)
(* a coyote window of a tenth of a second).  The speeds are integers of   *)
(* px/s, COYOTE_TIME is the double 0.1.                                    *)
(***************************************************************************)
TILE_SIZE == 32
GRAVITY == 1800
JUMP_SPEED == 620
MOVE_SPEED == 260
\* a tenth of a second, the literal 0.1
COYOTE_TIME == FloatOfRatio(1, 10)

\* Enemy.__init__: pygame.Vector2(140, 0)
ENEMY_SPEED == 140
\* load_level: Collectible(pygame.Rect(x + 8, y + 8, 16, 16))
COLLECTIBLE_INSET == 8
COLLECTIBLE_SIZE == 16
\* Collectible.value default
COLLECTIBLE_VALUE == 1

(***************************************************************************)
(* Bounds of the model.                                                    *)
(***************************************************************************)
\* Frame times, in ms: a frame at 60 FPS, a lagging frame and a stall of
\* half a second.
\* input_axis is -1, 0 or 1, as the main loop computes it from the keys.
\* Both are drawn from the sets a run names (Runs below).
\* The death counter is never reset by the program; stepping stops here.
MaxDeaths == 2
\* Stepping stops once a body has fallen this far below the level.
FallMargin == 64
\* Frames counted by the quiet-frame counter before it gives up.
MaxQuiet == 20
\* The frames played after a load or a reset, in the runs that need many
\* and in the others.
LongRun == 24
ShortRun == 8
\* The level files loaded without being played have at most this many
\* lines and at most this many characters in all.
MaxLines == 2
MaxCells == 3

(***************************************************************************)
(* Level texts, one sequence of characters per line.                       *)
(***************************************************************************)
ScenarioGrid ==
  << << "#", "#", "#", "#", "#" >>,
     << "#", "P", ".", ".", "#" >>,
     << "#", ".", ".", "E", "#" >>,
     << "#", "#", "#", "#", "#" >> >>

ShrineGrid ==
  << << ".", "C", "C", "." >>,
     << ".", "P", "E", "." >>,
     << ".", "G", "E", "." >>,
     << "#", "#", "#", "#" >> >>

\* A platform two tiles wide with the player standing on it.
LedgeGrid ==
  << << ".", ".", ".", "." >>,
     << ".", "P", ".", "." >>,
     << ".", "#", "#", "." >> >>

\* A walled corridor with a collectible and a patrolling enemy.
PatrolGrid ==
  << << "#", "P", "C", ".", "E", "#" >>,
     << "#", "#", "#", "#", "#", "#" >> >>

\* A gap one tile wide, as wide as the player above it.
GapGrid ==
  << << ".", "P", "." >>,
     << "#", ".", "#" >>,
     << ".", ".", "." >> >>

\* A corridor whose goal is guarded: the enemy patrols in front of the goal
\* and a collectible hangs above it.
GateGrid ==
  << << "#", "P", ".", ".", "C", "#" >>,
     << "#", ".", ".", "E", "G", "#" >>,
     << "#", "#", "#", "#", "#", "#" >> >>

\* An enemy that falls in front of two tiles set as a stair, the upper one
\* further away: a long frame carries the falling enemy over the lower tile
\* into both, and the loop of Enemy.update clamps it against the upper tile
\* and then against the lower one.  The player falls apart from them.
StairGrid ==
  << << ".", "E", ".", ".", "#", ".", "P" >>,
     << ".", ".", ".", "#", ".", ".", "." >>,
     << ".", ".", ".", ".", ".", ".", "." >>,
     << "#", "#", "#", "#", "#", "#", "#" >> >>

\* A run: a level with the frame times (ms) and the inputs it is played
\* with, and the number of frames played after a load or a reset.
Runs ==
  { [lines |-> ScenarioGrid, dts |-> {100}, axes |-> {0}, frames |-> LongRun],
    [lines |-> ScenarioGrid, dts |-> {16}, axes |-> {0}, frames |-> ShortRun],
    [lines |-> ShrineGrid, dts |-> {16, 100}, axes |-> {-1, 0, 1}, frames |-> ShortRun],
    [lines |-> LedgeGrid, dts |-> {16}, axes |-> {1}, frames |-> LongRun],
    [lines |-> LedgeGrid, dts |-> {100}, axes |-> {0, 1}, frames |-> ShortRun],
    [lines |-> PatrolGrid, dts |-> {100}, axes |-> {1}, frames |-> ShortRun],
    [lines |-> PatrolGrid, dts |-> {100}, axes |-> {-1}, frames |-> ShortRun],
    [lines |-> GapGrid, dts |-> {16, 100}, axes |-> {0}, frames |-> ShortRun],
    [lines |-> GateGrid, dts |-> {100}, axes |-> {1}, frames |-> ShortRun],
    [lines |-> StairGrid, dts |-> {100, 500}, axes |-> {0}, frames |-> ShortRun] }

\* Runs whose frame times are not positive: update called with dt <= 0.
MalformedRuns ==
  { [lines |-> LedgeGrid, dts |-> {-16, 0}, axes |-> {0}, frames |-> ShortRun],
    [lines |-> PatrolGrid, dts |-> {-16, 0}, axes |-> {0}, frames |-> ShortRun] }

\* The characters of a level file: the five the loader knows, the blank of
\* the level files and one it does not know.
LevelChars == {"#", "P", "E", "C", "G", ".", "x"}

\* The lines of exactly k characters.
RECURSIVE LinesOfLen(_)
LinesOfLen(k) ==
  IF k = 0 THEN {<< >>}
  ELSE {Append(l, c) : l \in LinesOfLen(k - 1), c \in LevelChars}

\* The level texts of exactly n lines and at most m characters in all.
RECURSIVE GridsOf(_, _)
GridsOf(n, m) ==
  IF n = 0 THEN {<< >>}
  ELSE UNION {{<< l >> \o g : l \in LinesOfLen(k), g \in GridsOf(n - 1, m - k)} :
                k \in 0 .. m}

\* The level files that are loaded without being played: every text of at
\* most MaxLines lines and MaxCells characters, the empty file among them.
LoadGrids == UNION {GridsOf(n, MaxCells) : n \in 0 .. MaxLines}

(***************************************************************************)
(* Arithmetic and rectangles.                                              *)
(***************************************************************************)
\* int(velocity * dt) for a velocity that is a double
Displace(v, dt) == FTrunc(FMul(v, dt))

Rect(x, y, w, h) == [x |-> x, y |-> y, w |-> w, h |-> h]

\* pygame.Rect.colliderect for rectangles of positive size: touching edges
\* do not collide.
Collide(a, b) ==
  /\ a.x < b.x + b.w
  /\ b.x < a.x + a.w
  /\ a.y < b.y + b.h
  /\ b.y < a.y + a.h

(***************************************************************************)
(* Entities.                                                               *)
(***************************************************************************)
NewPlayer(position) ==
  [x |-> position[1], y |-> position[2], vx |-> 0, vy |-> FZero,
   on_ground |-> FALSE, coyote_timer |-> FZero, jump_requested |-> FALSE]

PlayerRect(p) == Rect(p.x, p.y, TILE_SIZE, TILE_SIZE * 2)

NewEnemy(position) ==
  [x |-> position[1], y |-> position[2], vx |-> ENEMY_SPEED, vy |-> FZero]

EnemyRect(e) == Rect(e.x, e.y, TILE_SIZE, TILE_SIZE)

NewCollectible(rect) ==
  [rect |-> rect, value |-> COLLECTIBLE_VALUE, collected |-> FALSE]

(***************************************************************************)
(* load_level: the row-major scan of the grid.                             *)
(***************************************************************************)
\* width taken from the first line alone.
MaxLineLenFirst(lines, i) == IF i > Len(lines) THEN 0 ELSE Len(lines[i])

RECURSIVE MaxLineLen(_, _)
MaxLineLen(lines, i) ==
  IF i > Len(lines) THEN 0
  ELSE LET rest == MaxLineLen(lines, i + 1)
       IN IF Len(lines[i]) > rest THEN Len(lines[i]) ELSE rest

EmptyLevel ==
  [solids |-> << >>, enemies |-> << >>, collectibles |-> << >>,
   goal |-> Rect(0, 0, TILE_SIZE, TILE_SIZE * 2),
   player_spawn |-> << TILE_SIZE, TILE_SIZE >>]

\* The scan with the Enemy anchored one tile above its cell, like the Player.
PlaceCharEnemyAbove(acc, char, x, y) ==
  IF char = "#" THEN
    [acc EXCEPT !.solids = Append(@, Rect(x, y, TILE_SIZE, TILE_SIZE))]
  ELSE IF char = "P" THEN
    [acc EXCEPT !.player_spawn = << x, y - TILE_SIZE >>]
  ELSE IF char = "E" THEN
    [acc EXCEPT !.enemies = Append(@, NewEnemy(<< x, y - TILE_SIZE >>))]
  ELSE IF char = "C" THEN
    [acc EXCEPT !.collectibles =
       Append(@, NewCollectible(Rect(x + COLLECTIBLE_INSET, y + COLLECTIBLE_INSET,
                                     COLLECTIBLE_SIZE, COLLECTIBLE_SIZE)))]
  ELSE IF char = "G" THEN
    [acc EXCEPT !.goal = Rect(x, y - TILE_SIZE, TILE_SIZE, TILE_SIZE * 2)]
  ELSE acc

PlaceChar(acc, char, x, y) ==
  IF char = "#" THEN
    [acc EXCEPT !.solids = Append(@, Rect(x, y, TILE_SIZE, TILE_SIZE))]
  ELSE IF char = "P" THEN
    [acc EXCEPT !.player_spawn = << x, y - TILE_SIZE >>]
  ELSE IF char = "E" THEN
    [acc EXCEPT !.enemies = Append(@, NewEnemy(<< x, y >>))]
  ELSE IF char = "C" THEN
    [acc EXCEPT !.collectibles =
       Append(@, NewCollectible(Rect(x + COLLECTIBLE_INSET, y + COLLECTIBLE_INSET,
                                     COLLECTIBLE_SIZE, COLLECTIBLE_SIZE)))]
  ELSE IF char = "G" THEN
    [acc EXCEPT !.goal = Rect(x, y - TILE_SIZE, TILE_SIZE, TILE_SIZE * 2)]
  ELSE acc

\* The loops of the program run over a list in order.  The model folds the
\* same list in the same order: a ...Range(x, list, lo, hi) operator is the
\* loop body applied for lo, lo + 1, ..., hi in turn.  It splits lo..hi in
\* halves and finishes the first half before it starts the second
\* (Only({F(q) : q \in {e}}) is F(e) with e evaluated first), which keeps
\* the evaluation shallow.
Only(S) == CHOOSE x \in S : TRUE

\* for col_idx, char in enumerate(line), columns lo..hi (0-based)
RECURSIVE ScanLine(_, _, _, _, _)
ScanLine(acc, line, row_idx, lo, hi) ==
  IF lo > hi THEN acc
  ELSE IF lo = hi
  THEN PlaceChar(acc, line[lo + 1], lo * TILE_SIZE, row_idx * TILE_SIZE)
  ELSE Only({ScanLine(q, line, row_idx, (lo + hi) \div 2 + 1, hi) :
               q \in {ScanLine(acc, line, row_idx, lo, (lo + hi) \div 2)}})

\* for row_idx, line in enumerate(lines), rows lo..hi (0-based)
RECURSIVE ScanLines(_, _, _, _)
ScanLines(acc, lines, lo, hi) ==
  IF lo > hi THEN acc
  ELSE IF lo = hi
  THEN ScanLine(acc, lines[lo + 1], lo, 0, Len(lines[lo + 1]) - 1)
  ELSE Only({ScanLines(q, lines, (lo + hi) \div 2 + 1, hi) :
               q \in {ScanLines(acc, lines, lo, (lo + hi) \div 2)}})

\* What load_level raises: LEVEL_PATH.read_text raises FileNotFoundError
\* when the path is missing, and max() of no line lengths raises ValueError;
\* "none" when it returns.
LoadError(found, lines) ==
  IF ~found THEN "FileNotFoundError"
  ELSE IF Len(lines) = 0 THEN "ValueError"
  ELSE "none"

\* A name of main() that was never bound, load_level having raised.
Unbound == [unbound |-> TRUE]

LoadLevel(lines) ==
  LET scanned == ScanLines(EmptyLevel, lines, 0, Len(lines) - 1)
  IN [solids |-> scanned.solids,
      enemies |-> scanned.enemies,
      collectibles |-> scanned.collectibles,
      goal |-> scanned.goal,
      player_spawn |-> scanned.player_spawn,
      size_px |-> << MaxLineLen(lines, 1) * TILE_SIZE, Len(lines) * TILE_SIZE >>]

(***************************************************************************)
(* Player.update and the steps it is made of.                              *)
(***************************************************************************)
\* The loop body with velocity.x set to 0 on a clamp, as the vertical one
\* does with velocity.y.
ClampHorizontalStop(p, block) ==
  IF Collide(PlayerRect(p), block)
  THEN IF p.vx > 0 THEN [p EXCEPT !.x = block.x - TILE_SIZE, !.vx = 0]
       ELSE IF p.vx < 0 THEN [p EXCEPT !.x = block.x + block.w, !.vx = 0]
       ELSE p
  ELSE p

\* The loop body with the else of Enemy.update: a box that does not move
\* right is put to the right of the block.
ClampHorizontalElse(p, block) ==
  IF Collide(PlayerRect(p), block)
  THEN IF p.vx > 0 THEN [p EXCEPT !.x = block.x - TILE_SIZE]
       ELSE [p EXCEPT !.x = block.x + block.w]
  ELSE p

\* The body of the loop of _resolve_horizontal for one block.
ClampHorizontal(p, block) ==
  IF Collide(PlayerRect(p), block)
  THEN IF p.vx > 0 THEN [p EXCEPT !.x = block.x - TILE_SIZE]
       ELSE IF p.vx < 0 THEN [p EXCEPT !.x = block.x + block.w]
       ELSE p
  ELSE p

RECURSIVE ResolveHorizontalRange(_, _, _, _)
ResolveHorizontalRange(p, solids, lo, hi) ==
  IF lo > hi THEN p
  ELSE IF lo = hi THEN ClampHorizontal(p, solids[lo])
  ELSE Only({ResolveHorizontalRange(q, solids, (lo + hi) \div 2 + 1, hi) :
               q \in {ResolveHorizontalRange(p, solids, lo, (lo + hi) \div 2)}})

ResolveHorizontal(p, solids) == ResolveHorizontalRange(p, solids, 1, Len(solids))

\* The body of the loop of _resolve_vertical for one block.
\* The vertical clamp that puts a box of one tile, not two, on the block.
ClampVerticalShort(p, block) ==
  IF Collide(PlayerRect(p), block)
  THEN IF FSign(p.vy) > 0
       THEN [p EXCEPT !.y = block.y - TILE_SIZE, !.vy = FZero, !.on_ground = TRUE]
       ELSE IF FSign(p.vy) < 0
       THEN [p EXCEPT !.y = block.y + block.h, !.vy = FZero]
       ELSE p
  ELSE p

ClampVertical(p, block) ==
  IF Collide(PlayerRect(p), block)
  THEN IF FSign(p.vy) > 0
       THEN [p EXCEPT !.y = block.y - TILE_SIZE * 2, !.vy = FZero, !.on_ground = TRUE]
       ELSE IF FSign(p.vy) < 0
       THEN [p EXCEPT !.y = block.y + block.h, !.vy = FZero]
       ELSE p
  ELSE p

RECURSIVE ResolveVerticalRange(_, _, _, _)
ResolveVerticalRange(p, solids, lo, hi) ==
  IF lo > hi THEN p
  ELSE IF lo = hi THEN ClampVertical(p, solids[lo])
  ELSE Only({ResolveVerticalRange(q, solids, (lo + hi) \div 2 + 1, hi) :
               q \in {ResolveVerticalRange(p, solids, lo, (lo + hi) \div 2)}})

ResolveVertical(p, solids) ==
  ResolveVerticalRange([p EXCEPT !.on_ground = FALSE], solids, 1, Len(solids))

\* velocity.x = input_axis * MOVE_SPEED; velocity.y += GRAVITY * dt
ApplyVelocity(p, dt, input_axis) ==
  [p EXCEPT !.vx = input_axis * MOVE_SPEED, !.vy = FAdd(@, FMul(FloatOfInt(GRAVITY), dt))]

\* rect.x += int(velocity.x * dt); _resolve_horizontal(solids)
MoveHorizontal(p, dt, solids) ==
  ResolveHorizontal([p EXCEPT !.x = @ + Displace(FloatOfInt(p.vx), dt)], solids)

\* rect.y += int(velocity.y * dt), before _resolve_vertical
IntegrateY(p, dt) == [p EXCEPT !.y = @ + Displace(p.vy, dt)]

MoveVertical(p, dt, solids) == ResolveVertical(IntegrateY(p, dt), solids)

\* update as far as rect.y += int(velocity.y * dt): the player at collision
\* time, vertical collisions unresolved.
Fall(p, dt, solids, input_axis) ==
  IntegrateY(MoveHorizontal(ApplyVelocity(p, dt, input_axis), dt, solids), dt)

\* The timer update without the return to 0 on the ground.
UpdateCoyoteNoReset(p, dt) == [p EXCEPT !.coyote_timer = FAdd(@, dt)]

UpdateCoyote(p, dt) ==
  IF p.on_ground THEN [p EXCEPT !.coyote_timer = FZero]
  ELSE [p EXCEPT !.coyote_timer = FAdd(@, dt)]

\* _try_jump with the window closed at its boundary.
TryJumpStrict(p) ==
  IF p.on_ground \/ FLt(p.coyote_timer, COYOTE_TIME)
  THEN [p EXCEPT !.vy = FloatOfInt(-JUMP_SPEED), !.on_ground = FALSE,
                 !.coyote_timer = FAdd(COYOTE_TIME, FloatOfInt(1))]
  ELSE p

\* _try_jump that leaves coyote_timer as it is.
TryJumpNoLock(p) ==
  IF p.on_ground \/ FLe(p.coyote_timer, COYOTE_TIME)
  THEN [p EXCEPT !.vy = FloatOfInt(-JUMP_SPEED), !.on_ground = FALSE]
  ELSE p

TryJump(p) ==
  IF p.on_ground \/ FLe(p.coyote_timer, COYOTE_TIME)
  THEN [p EXCEPT !.vy = FloatOfInt(-JUMP_SPEED), !.on_ground = FALSE,
                 !.coyote_timer = FAdd(COYOTE_TIME, FloatOfInt(1))]
  ELSE p

\* The player once collisions are resolved and coyote_timer is updated: the
\* state the pending jump request is evaluated in.
Land(fell, dt, solids) == UpdateCoyote(ResolveVertical(fell, solids), dt)

BeforeJump(p, dt, solids, input_axis) ==
  Land(Fall(p, dt, solids, input_axis), dt, solids)

\* The end of update without jump_requested = False.
ConsumeJumpKeep(p, q) == IF p.jump_requested THEN TryJump(q) ELSE q

ConsumeJump(p, q) ==
  [(IF p.jump_requested THEN TryJump(q) ELSE q) EXCEPT !.jump_requested = FALSE]

PlayerUpdate(p, dt, solids, input_axis) ==
  ConsumeJump(p, BeforeJump(p, dt, solids, input_axis))

(***************************************************************************)
(* Enemy.update.                                                           *)
(***************************************************************************)
\* The body of the horizontal loop of Enemy.update for one block.
EnemyClampHorizontal(e, block) ==
  IF Collide(EnemyRect(e), block)
  THEN IF e.vx > 0 THEN [e EXCEPT !.x = block.x - TILE_SIZE]
       ELSE [e EXCEPT !.x = block.x + block.w]
  ELSE e

\* The loop body that turns the enemy at every block it hits: two hits in
\* one update undo each other.
EnemyHorizontalBodyToggle(r, block) ==
  [enemy |-> EnemyClampHorizontal(r.enemy, block),
   collided |-> r.collided # Collide(EnemyRect(r.enemy), block)]

\* r is the pair (enemy, collided) the loop carries.
EnemyHorizontalBody(r, block) ==
  [enemy |-> EnemyClampHorizontal(r.enemy, block),
   collided |-> r.collided \/ Collide(EnemyRect(r.enemy), block)]

RECURSIVE EnemyResolveHorizontalRange(_, _, _, _)
EnemyResolveHorizontalRange(r, solids, lo, hi) ==
  IF lo > hi THEN r
  ELSE IF lo = hi THEN EnemyHorizontalBody(r, solids[lo])
  ELSE Only({EnemyResolveHorizontalRange(q, solids, (lo + hi) \div 2 + 1, hi) :
               q \in {EnemyResolveHorizontalRange(r, solids, lo, (lo + hi) \div 2)}})

\* An enemy that never turns around.
EnemyFlipNever(e, collided) == e

EnemyFlip(e, collided) == IF collided THEN [e EXCEPT !.vx = -@] ELSE e

EnemyMoveHorizontal(e, dt, solids) ==
  LET r == EnemyResolveHorizontalRange(
             [enemy |-> [e EXCEPT !.x = @ + Displace(FloatOfInt(e.vx), dt)],
              collided |-> FALSE], solids, 1, Len(solids))
  IN EnemyFlip(r.enemy, r.collided)

\* The body of the vertical loop of Enemy.update for one block.
EnemyClampVertical(e, block) ==
  IF Collide(EnemyRect(e), block)
  THEN IF FSign(e.vy) > 0
       THEN [e EXCEPT !.y = block.y - TILE_SIZE, !.vy = FZero]
       ELSE IF FSign(e.vy) < 0
       THEN [e EXCEPT !.y = block.y + block.h, !.vy = FZero]
       ELSE e
  ELSE e

RECURSIVE EnemyResolveVerticalRange(_, _, _, _)
EnemyResolveVerticalRange(e, solids, lo, hi) ==
  IF lo > hi THEN e
  ELSE IF lo = hi THEN EnemyClampVertical(e, solids[lo])
  ELSE Only({EnemyResolveVerticalRange(q, solids, (lo + hi) \div 2 + 1, hi) :
               q \in {EnemyResolveVerticalRange(e, solids, lo, (lo + hi) \div 2)}})

\* velocity.y += GRAVITY * dt
EnemyGravity(e, dt) == [e EXCEPT !.vy = FAdd(@, FMul(FloatOfInt(GRAVITY), dt))]

EnemyUpdate(e, dt, solids) ==
  LET g == EnemyGravity(e, dt)
      h == EnemyMoveHorizontal(g, dt, solids)
  IN EnemyResolveVerticalRange([h EXCEPT !.y = @ + Displace(h.vy, dt)],
                               solids, 1, Len(solids))

(***************************************************************************)
(* The frame loop of main(): the checks that follow the advance.           *)
(***************************************************************************)
\* The loop body without collectible.collected = True.
CollectBodyUnmarked(r, p, i) ==
  IF ~r.collectibles[i].collected
     /\ Collide(PlayerRect(p), r.collectibles[i].rect)
  THEN [r EXCEPT !.score = @ + r.collectibles[i].value]
  ELSE r

\* The body of the collectible loop for the i-th collectible; r holds the
\* collectibles and the score.
CollectBody(r, p, i) ==
  IF ~r.collectibles[i].collected
     /\ Collide(PlayerRect(p), r.collectibles[i].rect)
  THEN [collectibles |-> [r.collectibles EXCEPT ![i].collected = TRUE],
        score |-> r.score + r.collectibles[i].value]
  ELSE r

\* for collectible in level_data.collectibles: ...
RECURSIVE CollectFrom(_, _, _)
CollectFrom(r, p, i) ==
  IF i > Len(r.collectibles) THEN r
  ELSE CollectFrom(CollectBody(r, p, i), p, i + 1)

Collect(cs, total, p) == CollectFrom([collectibles |-> cs, score |-> total], p, 1)

\* for enemy in level_data.enemies: first contact counts a death, replaces
\* the player by a new one at the spawn point and leaves the loop
RECURSIVE EnemyContactFrom(_, _, _, _, _)
EnemyContactFrom(p, count, es, spawn, i) ==
  IF i > Len(es) THEN [player |-> p, deaths |-> count]
  ELSE IF Collide(PlayerRect(p), EnemyRect(es[i]))
       THEN [player |-> NewPlayer(spawn), deaths |-> count + 1]
       ELSE EnemyContactFrom(p, count, es, spawn, i + 1)

\* The enemy loop without its break: every overlapping enemy counts.
EnemyContactEvery(p, count, es, spawn) ==
  [player |-> IF \E k \in DOMAIN es : Collide(PlayerRect(p), EnemyRect(es[k]))
              THEN NewPlayer(spawn) ELSE p,
   deaths |-> count + Cardinality({k \in DOMAIN es :
                                     Collide(PlayerRect(p), EnemyRect(es[k]))})]

\* The enemy check that counts the death and keeps the player where it is.
EnemyContactNoRespawn(p, count, es, spawn) ==
  [player |-> p,
   deaths |-> IF \E k \in DOMAIN es : Collide(PlayerRect(p), EnemyRect(es[k]))
              THEN count + 1 ELSE count]

EnemyContact(p, count, es, spawn) == EnemyContactFrom(p, count, es, spawn, 1)

\* if player.rect.colliderect(level_data.goal.rect): level_complete = True
GoalCheck(complete, p, goal) == complete \/ Collide(PlayerRect(p), goal)

(***************************************************************************)
(* State.                                                                  *)
(***************************************************************************)
VARIABLES
  level_found,     \* LEVEL_PATH exists
  level_text,      \* the lines of the level file
  load_error,      \* the exception load_level raised in main(), or "none"
  frame_times,     \* the values clock.tick(FPS) takes in this run, in ms
  axes,            \* the values input_axis takes in this run
  frame_limit,     \* the number of frames this run plays after a load or reset
  frames,          \* the number of frames played since the load or the reset
  level_data,      \* LevelData: solids, enemies, collectibles, goal, spawn, size
  player,          \* the current Player object
  deaths,
  score,
  level_complete,
  airborne_jump,   \* history: this Player has jumped and no update of it has
                   \* ended with on_ground true since
  air_time,        \* history: the sum of the dt of the updates of this Player
                   \* since the last one that ended with on_ground true (or
                   \* since it was created); kept at 0 while airborne_jump
  since_ground,    \* history: ever says that an update of this Player has
                   \* ended with on_ground true, t is the sum of dt since
                   \* the last one that did, running on after a jump, and
                   \* held at COYOTE_TIME + 1 once it is past COYOTE_TIME
  quiet,           \* history: the number of frames since the level was
                   \* loaded, while every one of them had dt = 0.1 s,
                   \* input_axis = 0 and no jump request; -1 otherwise
  last             \* observation of the latest frame, see Observe

vars == << level_found, level_text, load_error, frame_times, axes,
           frame_limit, frames, level_data,
           player, deaths, score, level_complete, airborne_jump, air_time,
           since_ground, quiet, last >>

\* The observation before any frame has run.
NoFrame ==
  [stepped |-> FALSE, updated |-> FALSE, requested |-> FALSE,
   og |-> FALSE, ct |-> FZero, jumped |-> FALSE, jr_end |-> FALSE,
   vy_end |-> FZero, rejump |-> FALSE, vy_coll |-> FZero, beneath |-> FALSE,
   vy_res |-> FZero, og_end |-> FALSE, held |-> 0, gain |-> 0,
   contacts |-> 0, dd |-> 0, gv |-> 0, ct_drop |-> FALSE, egv |-> << >>,
   sg |-> [ever |-> TRUE, t |-> FZero], axis |-> 0, vx_end |-> 0, dx |-> 0, hclamp |-> FALSE, vclamp |-> FALSE,
   pfree0 |-> FALSE, psmall |-> FALSE, pfree1 |-> FALSE,
   efree0 |-> << >>, esmall |-> << >>, efree1 |-> << >>,
   was_complete |-> FALSE, adv_goal |-> FALSE, due |-> 0,
   respawned |-> FALSE, ehit |-> << >>, ehits |-> << >>, evx0 |-> << >>, evx1 |-> << >>]

\* A solid lies directly beneath the box: the bottom edge is on the tile's
\* top edge and the two overlap horizontally.
SolidBeneath(p, solids) ==
  \E k \in DOMAIN solids :
    /\ solids[k].y = p.y + TILE_SIZE * 2
    /\ p.x < solids[k].x + solids[k].w
    /\ solids[k].x < p.x + TILE_SIZE

\* The enemy box overlaps at least one solid after this step's horizontal move.
EnemyHitsSolid(e, dt, solids) ==
  \E k \in DOMAIN solids :
    Collide(EnemyRect([e EXCEPT !.x = @ + Displace(FloatOfInt(e.vx), dt)]), solids[k])

\* rect.colliderect(block) for some block of solids
OverlapsSolid(rect, solids) ==
  \E k \in DOMAIN solids : Collide(rect, solids[k])

\* -TILE_SIZE < d < TILE_SIZE
LessThanTile(d) == -TILE_SIZE < d /\ d < TILE_SIZE

\* A Player that has not been on the ground yet.
NeverGrounded == [ever |-> FALSE, t |-> FZero]

\* since_ground after an update of dt that ended with on_ground = grounded.
SinceGround(since, grounded, dt) ==
  IF grounded THEN [ever |-> TRUE, t |-> FZero]
  ELSE IF ~since.ever THEN since
  ELSE IF FLt(COYOTE_TIME, FAdd(since.t, dt))
  THEN [ever |-> TRUE, t |-> FAdd(COYOTE_TIME, FloatOfInt(1))]
  ELSE [ever |-> TRUE, t |-> FAdd(since.t, dt)]

\* The number of solids the enemy box overlaps after this step's horizontal
\* move.
EnemySolidsHit(e, dt, solids) ==
  Cardinality({k \in DOMAIN solids :
                 Collide(EnemyRect([e EXCEPT !.x = @ + Displace(FloatOfInt(e.vx), dt)]),
                         solids[k])})

\* What one frame did, for the properties below: every field is a snapshot
\* of a value the frame computed.  ready is the player at the moment the
\* jump request is evaluated, p1 the player after Player.update, fell the
\* player at collision time (y integrated, vertical collisions unresolved),
\* es0/es1 the enemies before and after their update, p2 the player after
\* the enemy check, cs0 the collectibles before the collectible check.
\* hclamp and vclamp say that horizontal and vertical resolution moved the
\* box; sg is since_ground at the moment the jump request is evaluated; gv
\* and egv are the signs of the change gravity made to velocity.y.
\* pfree0/pfree1 say that the player box overlapped no solid before/after
\* Player.update and psmall that both truncated displacements of the update
\* were shorter than a tile; efree0, esmall, efree1 say the same of each
\* enemy.  was_complete is level_complete before the frame, adv_goal says
\* that the advanced player box overlaps the goal, due counts the
\* collectibles not yet collected that the advanced box overlaps.
Observe(run, p0, fell, ready, p1, p2, es0, es1, dt, solids, spawn, d0, d1, air, cs0, gain, axis, since, goal) ==
  [stepped |-> TRUE,
   updated |-> run,
   requested |-> run /\ p0.jump_requested,
   og |-> run /\ ready.on_ground,
   ct |-> IF run THEN ready.coyote_timer ELSE FZero,
   jumped |-> run /\ p1.vy # ready.vy,
   jr_end |-> run /\ p1.jump_requested,
   vy_end |-> IF run THEN p1.vy ELSE FZero,
   rejump |-> run /\ p1.vy # ready.vy /\ air,
   vy_coll |-> IF run THEN fell.vy ELSE FZero,
   beneath |-> run /\ SolidBeneath(fell, solids),
   vy_res |-> IF run THEN ready.vy ELSE FZero,
   og_end |-> run /\ p1.on_ground,
   held |-> Cardinality({k \in DOMAIN cs0 :
                          cs0[k].collected /\ Collide(PlayerRect(p1), cs0[k].rect)}),
   gain |-> gain,
   contacts |-> Cardinality({k \in DOMAIN es1 :
                              Collide(PlayerRect(p1), EnemyRect(es1[k]))}),
   dd |-> d1 - d0,
   gv |-> IF run THEN FSign(FAdd(fell.vy, FNeg(p0.vy))) ELSE 0,
   ct_drop |-> /\ run
               /\ ~ready.on_ground
               /\ FLt(ready.coyote_timer, p0.coyote_timer),
   egv |-> [k \in DOMAIN es0 |->
              IF run
              THEN FSign(FAdd(EnemyGravity(es0[k], dt).vy, FNeg(es0[k].vy)))
              ELSE 0],
   sg |-> IF ~run THEN [ever |-> TRUE, t |-> FZero]
          ELSE SinceGround(since, ready.on_ground, dt),
   axis |-> IF run THEN axis ELSE 0,
   vx_end |-> IF run THEN p1.vx ELSE 0,
   dx |-> IF run THEN p1.x - p0.x ELSE 0,
   hclamp |-> run /\ fell.x # p0.x + Displace(FloatOfInt(axis * MOVE_SPEED), dt),
   vclamp |-> run /\ ready.y # fell.y,
   pfree0 |-> run /\ ~OverlapsSolid(PlayerRect(p0), solids),
   psmall |-> /\ run
              /\ LessThanTile(Displace(FloatOfInt(axis * MOVE_SPEED), dt))
              /\ LessThanTile(Displace(fell.vy, dt)),
   pfree1 |-> run /\ ~OverlapsSolid(PlayerRect(p1), solids),
   efree0 |-> [k \in DOMAIN es0 |->
                 run /\ ~OverlapsSolid(EnemyRect(es0[k]), solids)],
   esmall |-> [k \in DOMAIN es0 |->
                 /\ run
                 /\ LessThanTile(Displace(FloatOfInt(es0[k].vx), dt))
                 /\ LessThanTile(Displace(EnemyGravity(es0[k], dt).vy, dt))],
   efree1 |-> [k \in DOMAIN es0 |->
                 run /\ ~OverlapsSolid(EnemyRect(es1[k]), solids)],
   was_complete |-> ~run,
   adv_goal |-> Collide(PlayerRect(p1), goal),
   due |-> Cardinality({k \in DOMAIN cs0 :
                         ~cs0[k].collected /\ Collide(PlayerRect(p1), cs0[k].rect)}),
   respawned |-> p2 = NewPlayer(spawn),
   ehit |-> [k \in DOMAIN es0 |-> run /\ EnemyHitsSolid(es0[k], dt, solids)],
   ehits |-> [k \in DOMAIN es0 |->
                IF run THEN EnemySolidsHit(es0[k], dt, solids) ELSE 0],
   evx0 |-> [k \in DOMAIN es0 |-> es0[k].vx],
   evx1 |-> [k \in DOMAIN es0 |-> es1[k].vx]]

\* for enemy in level_data.enemies: enemy.update(dt, level_data.solids)
UpdateEnemies(es, dt, solids) ==
  [k \in DOMAIN es |-> EnemyUpdate(es[k], dt, solids)]

InBounds ==
  LET lowest == level_data.size_px[2] + FallMargin
  IN /\ player.y <= lowest
     /\ \A k \in DOMAIN level_data.enemies : level_data.enemies[k].y <= lowest

\* main() up to its loop, for a level file and the frame times and inputs
\* of the run.  An exception of load_level ends main() there.
InitWith(found, lines, dts, axs, limit) ==
  /\ level_found = found
  /\ level_text = lines
  /\ frame_times = dts
  /\ axes = axs
  /\ frame_limit = limit
  /\ frames = 0
  /\ load_error = LoadError(found, lines)
  /\ level_data = IF load_error = "none" THEN LoadLevel(lines) ELSE Unbound
  /\ player = IF load_error = "none" THEN NewPlayer(level_data.player_spawn)
              ELSE Unbound
  /\ deaths = 0
  /\ score = 0
  /\ level_complete = FALSE
  /\ airborne_jump = FALSE
  /\ air_time = FZero
  /\ since_ground = NeverGrounded
  /\ quiet = 0
  /\ last = NoFrame

Init == \E run \in Runs : InitWith(TRUE, run.lines, run.dts, run.axes, run.frames)

\* KEYDOWN K_SPACE: player.request_jump()
RequestJump ==
  /\ load_error = "none"
  /\ player' = [player EXCEPT !.jump_requested = TRUE]
  /\ UNCHANGED << level_found, level_text, load_error, frame_times, axes,
                  frame_limit, frames, level_data, deaths, score, level_complete, airborne_jump,
                  air_time, since_ground, quiet, last >>

\* reset_level without score = 0.
ResetLevelKeepScore ==
  /\ load_error = "none"
  /\ level_data' = LoadLevel(level_text)
  /\ player' = NewPlayer(level_data'.player_spawn)
  /\ level_complete' = FALSE
  /\ airborne_jump' = FALSE
  /\ air_time' = FZero
  /\ since_ground' = NeverGrounded
  /\ quiet' = 0
  /\ last' = NoFrame
  /\ frames' = 0
  /\ UNCHANGED << level_found, level_text, load_error, frame_times, axes,
                  frame_limit,
                  deaths, score >>

\* KEYDOWN K_r: reset_level()
ResetLevel ==
  /\ load_error = "none"
  /\ level_data' = LoadLevel(level_text)
  /\ player' = NewPlayer(level_data'.player_spawn)
  /\ score' = 0
  /\ level_complete' = FALSE
  /\ airborne_jump' = FALSE
  /\ air_time' = FZero
  /\ since_ground' = NeverGrounded
  /\ quiet' = 0
  /\ last' = NoFrame
  /\ frames' = 0
  /\ UNCHANGED << level_found, level_text, load_error, frame_times, axes,
                  frame_limit,
                  deaths >>

\* One pass of the frame loop after the events: advance, collectibles,
\* enemy contact, goal.
Step(ms, input_axis) ==
  /\ load_error = "none"
  /\ InBounds
  /\ deaths < MaxDeaths
  /\ frames < frame_limit
  /\ frames' = frames + 1
  /\ \E dt \in {FloatOfRatio(ms, 1000)} :
     \E fell \in {Fall(player, dt, level_data.solids, input_axis)} :
     \E ready \in {Land(fell, dt, level_data.solids)} :
     \E p1 \in {IF level_complete THEN player ELSE ConsumeJump(player, ready)} :
     \E es1 \in {IF level_complete THEN level_data.enemies
                 ELSE UpdateEnemies(level_data.enemies, dt, level_data.solids)} :
     \E picked \in {Collect(level_data.collectibles, score, p1)} :
     \E struck \in {EnemyContact(p1, deaths, es1, level_data.player_spawn)} :
       /\ level_data' = [level_data EXCEPT !.enemies = es1,
                                           !.collectibles = picked.collectibles]
       /\ score' = picked.score
       /\ deaths' = struck.deaths
       /\ player' = struck.player
       /\ level_complete' = GoalCheck(level_complete, struck.player, level_data.goal)
       /\ airborne_jump' =
            IF struck.deaths # deaths THEN FALSE
            ELSE IF level_complete THEN airborne_jump
            ELSE IF p1.vy # ready.vy THEN TRUE
            ELSE IF p1.on_ground THEN FALSE
            ELSE airborne_jump
       /\ air_time' =
            IF struck.deaths # deaths THEN FZero
            ELSE IF level_complete THEN air_time
            ELSE IF airborne_jump' \/ p1.on_ground THEN FZero
            ELSE FAdd(air_time, dt)
       /\ since_ground' =
            IF struck.deaths # deaths THEN NeverGrounded
            ELSE IF level_complete THEN since_ground
            ELSE SinceGround(since_ground, p1.on_ground, dt)
       /\ quiet' =
            IF /\ quiet >= 0
               /\ quiet < MaxQuiet
               /\ ms = 100
               /\ input_axis = 0
               /\ ~player.jump_requested
            THEN quiet + 1
            ELSE -1
       /\ last' = Observe(~level_complete, player, fell, ready, p1, struck.player,
                          level_data.enemies, es1, dt, level_data.solids,
                          level_data.player_spawn, deaths, struck.deaths,
                          airborne_jump, level_data.collectibles,
                          picked.score - score, input_axis, since_ground,
                          level_data.goal)
  /\ UNCHANGED << level_found, level_text, load_error, frame_times, axes,
                  frame_limit >>

Next ==
  \/ \E ms \in frame_times, input_axis \in axes : Step(ms, input_axis)
  \/ RequestJump
  \/ ResetLevel

Spec == Init /\ [][Next]_vars

\* The frame loop fed frame times that are not positive.
MalformedInit ==
  \E run \in MalformedRuns : InitWith(TRUE, run.lines, run.dts, run.axes, run.frames)

MalformedSpec == MalformedInit /\ [][Next]_vars

\* Loading alone: main() started on each of the small level files, present
\* or missing, with the two key events that need no frame.
LoadInit ==
  \E found \in BOOLEAN, lines \in LoadGrids :
    /\ found \/ lines = << >>
    /\ InitWith(found, lines, {100}, {0}, ShortRun)

LoadNext == RequestJump \/ ResetLevel

LoadSpec == LoadInit /\ [][LoadNext]_vars

(***************************************************************************)
(* Properties.                                                             *)
(***************************************************************************)

\* C1 (goal freeze): once level_complete is set, every further frame that
\* is not a reset leaves the player box position, every enemy box position
\* and the score unchanged.
GoalFreeze ==
  [][(level_complete /\ level_complete') =>
       /\ player'.x = player.x
       /\ player'.y = player.y
       /\ \A k \in DOMAIN level_data.enemies :
            /\ level_data'.enemies[k].x = level_data.enemies[k].x
            /\ level_data'.enemies[k].y = level_data.enemies[k].y
       /\ score' = score]_vars

\* A frame has run with the level complete.
GoalFreezeReached == level_complete /\ last.stepped /\ ~last.updated

\* The values of the collected collectibles among cs[i], cs[i + 1], ...
RECURSIVE CollectedValue(_, _)
CollectedValue(cs, i) ==
  IF i > Len(cs) THEN 0
  ELSE (IF cs[i].collected THEN cs[i].value ELSE 0) + CollectedValue(cs, i + 1)

\* C2 (collectible idempotence): in every reachable state the score is the
\* sum of the values of the collected collectibles, and no frame takes a
\* collected flag back: between two resets each flag goes from false to
\* true at most once and the score grows by the value exactly then.
CollectibleIdempotence ==
  /\ [](score = CollectedValue(level_data.collectibles, 1))
  /\ [][last'.stepped =>
          \A k \in DOMAIN level_data.collectibles :
            level_data.collectibles[k].collected =>
              level_data'.collectibles[k].collected]_vars

\* The frame found the player on a collectible it had collected before and
\* added nothing.
CollectibleHeldAgain == last.stepped /\ last.held >= 1 /\ last.gain = 0 /\ score >= 1

\* C3 (edge-trigger consumption): jump_requested is false at the end of
\* every Player.update, whether or not a jump fired, and an update jumps
\* only if a request was pending when it began; so requests made between
\* two updates cause at most one jump and a dropped request causes none
\* later.
EdgeTriggerConsumption ==
  last.updated => (~last.jr_end /\ (last.jumped => last.requested))

\* An update dropped a request made in the air past the coyote window.
RequestDropped ==
  last.updated /\ last.requested /\ ~last.jumped /\ ~player.jump_requested

\* C4 (coyote window): an update with a pending request jumps if and only
\* if, once collisions are resolved and coyote_timer is updated, on_ground
\* is true or coyote_timer <= COYOTE_TIME; the jump sets velocity.y to
\* -JUMP_SPEED and on_ground to false.
CoyoteWindow ==
  last.requested =>
    /\ last.jumped <=> (last.og \/ FLe(last.ct, COYOTE_TIME))
    /\ last.jumped => (last.vy_end = FloatOfInt(-JUMP_SPEED) /\ ~last.og_end)

\* A request evaluated off the ground at coyote_timer = COYOTE_TIME jumped.
CoyoteBoundaryJump ==
  last.requested /\ last.jumped /\ ~last.og /\ last.ct = COYOTE_TIME

\* C5 as stated (no double jump): after a jump no later update jumps until
\* some update has ended with on_ground true.
NoDoubleJump == ~last.rejump

\* C5 as the program has it: after a jump no later update jumps unless its
\* own vertical collision resolution has set on_ground true, or an earlier
\* update has ended with on_ground true.
NoDoubleJumpBeforeLanding == last.rejump => last.og

\* A request pending on the landing frame jumped in that same update.
LandingFrameJump == last.rejump /\ last.og /\ last.requested

\* C6 (grounding invariant): after any Player.update in which the vertical
\* velocity was non-negative at collision time and a solid lay directly
\* beneath the player (bottom edge on the tile's top edge, overlapping it
\* horizontally), on_ground is true and velocity.y is 0.
GroundingInvariant ==
  (last.updated /\ FSign(last.vy_coll) >= 0 /\ last.beneath) =>
    (last.og /\ FIsZero(last.vy_res))

\* An update found a solid directly beneath a player that was not rising.
StoodOnSolid == last.updated /\ FSign(last.vy_coll) >= 0 /\ last.beneath

\* C7 (patrol reversal): every Enemy.update ends with velocity.x negated if
\* the enemy box overlapped at least one solid after the horizontal move,
\* negated once however many solids it overlapped, and unchanged otherwise;
\* every enemy's velocity.x is +140 or -140.
PatrolReversal ==
  /\ \A k \in DOMAIN last.ehit :
       last.evx1[k] = IF last.ehit[k] THEN -last.evx0[k] ELSE last.evx0[k]
  /\ \A k \in DOMAIN level_data.enemies :
       level_data.enemies[k].vx \in {ENEMY_SPEED, -ENEMY_SPEED}

\* An enemy overlapped two solids after one horizontal move, was clamped
\* against both (it ends left of the lower tile of the stair) and turned
\* once.
PatrolHitTwoTiles ==
  /\ level_text = StairGrid
  /\ \E k \in DOMAIN last.ehits :
       /\ last.ehits[k] >= 2
       /\ last.evx0[k] = ENEMY_SPEED /\ last.evx1[k] = -ENEMY_SPEED
       /\ level_data.enemies[k].x = 2 * TILE_SIZE

\* An enemy moving left hit a solid and turned right again.
PatrolTurnedTwice ==
  \E k \in DOMAIN last.ehit :
    last.ehit[k] /\ last.evx0[k] = -ENEMY_SPEED /\ last.evx1[k] = ENEMY_SPEED

\* C8 (enemy contact): a frame adds exactly 1 to the death count if the
\* player box overlaps at least one enemy box after the advance, and 0
\* otherwise; when it adds 1 the player leaves the enemy check as a new
\* Player at the spawn point.
EnemyContactOnce ==
  last.stepped =>
    /\ last.dd = IF last.contacts >= 1 THEN 1 ELSE 0
    /\ last.contacts >= 1 => last.respawned

\* Two enemies overlapped the player in one frame and one death was counted.
TwoEnemiesOneDeath == last.stepped /\ last.contacts >= 2 /\ last.dd = 1

\* The border cells of the 5 x 4 grid of the scenario.
ScenarioBorder ==
  { Rect(c * TILE_SIZE, r * TILE_SIZE, TILE_SIZE, TILE_SIZE) :
      << c, r >> \in { cr \in (0 .. 4) \X (0 .. 3) :
                        cr[1] \in {0, 4} \/ cr[2] \in {0, 3} } }

\* The scenario level has just been loaded.
ScenarioLoaded == level_text = ScenarioGrid /\ ~last.stepped

\* C9 as stated (scenario, parsing): the loaded scenario has its spawn at
\* (32, 0), exactly one Enemy, at pixel (96, 32), and the border cells as
\* its solids.
ScenarioParsing ==
  ScenarioLoaded =>
    /\ level_data.player_spawn = << 32, 0 >>
    /\ Len(level_data.enemies) = 1
    /\ level_data.enemies[1].x = 96 /\ level_data.enemies[1].y = 32
    /\ Len(level_data.solids) = 14
    /\ {level_data.solids[k] : k \in DOMAIN level_data.solids} = ScenarioBorder

\* C9 as the program has it: the Enemy is anchored at its own cell, pixel
\* (96, 64); spawn and solids are as stated.
ScenarioParsingAtCell ==
  ScenarioLoaded =>
    /\ level_data.player_spawn = << 32, 0 >>
    /\ Len(level_data.enemies) = 1
    /\ level_data.enemies[1].x = 96 /\ level_data.enemies[1].y = 64
    /\ Len(level_data.solids) = 14
    /\ {level_data.solids[k] : k \in DOMAIN level_data.solids} = ScenarioBorder

\* The scenario is loaded and its Enemy stands in the row of its cell.
ScenarioEnemyAtCell ==
  ScenarioLoaded /\ level_data.enemies[1].y = 2 * TILE_SIZE

\* C10 (scenario, stepping): 20 frames of the scenario with dt = 0.1,
\* input_axis = 0 and no jump request leave the player resting on the
\* floor inside the room (bottom edge on the top edge of the bottom wall
\* row) with on_ground true.
ScenarioStepping ==
  (level_text = ScenarioGrid /\ quiet = 20) =>
    /\ player.on_ground
    /\ player.y + TILE_SIZE * 2 = 3 * TILE_SIZE
    /\ player.x >= TILE_SIZE
    /\ player.x + TILE_SIZE <= 4 * TILE_SIZE

\* The 20 quiet frames of the scenario have run.
ScenarioStepped == level_text = ScenarioGrid /\ quiet = 20

\* The cells (row, column), 0-based, that hold char.
CellsOf(lines, char) ==
  { rc \in (0 .. Len(lines) - 1) \X (0 .. 8) :
      /\ rc[2] < Len(lines[rc[1] + 1])
      /\ lines[rc[1] + 1][rc[2] + 1] = char }

\* The length of the longest line, stated without recursion.
LongestLine(lines) ==
  CHOOSE n \in 0 .. 8 :
    /\ \A i \in DOMAIN lines : Len(lines[i]) <= n
    /\ n = 0 \/ \E i \in DOMAIN lines : Len(lines[i]) = n

\* C11 (grid table): a loaded level has exactly one tile-size solid at
\* (col*T, row*T) per '#', one Enemy there per 'E', one 16 x 16 Collectible
\* centred in the tile per 'C'; its spawn is (col*T, row*T - T) for a 'P'
\* and (T, T) without one; its goal is the T x 2T box at (col*T, row*T - T)
\* for a 'G' and the one at (0, 0) without one; no other character emits
\* anything; its size is (longest line * T, line count * T).
LevelFollowsTable ==
  (load_error = "none" /\ ~last.stepped) =>
    /\ Len(level_data.solids) = Cardinality(CellsOf(level_text, "#"))
    /\ {level_data.solids[k] : k \in DOMAIN level_data.solids} =
         {Rect(rc[2] * TILE_SIZE, rc[1] * TILE_SIZE, TILE_SIZE, TILE_SIZE) :
            rc \in CellsOf(level_text, "#")}
    /\ Len(level_data.enemies) = Cardinality(CellsOf(level_text, "E"))
    /\ {level_data.enemies[k] : k \in DOMAIN level_data.enemies} =
         {[x |-> rc[2] * TILE_SIZE, y |-> rc[1] * TILE_SIZE, vx |-> 140, vy |-> FZero] :
            rc \in CellsOf(level_text, "E")}
    /\ Len(level_data.collectibles) = Cardinality(CellsOf(level_text, "C"))
    /\ {level_data.collectibles[k] : k \in DOMAIN level_data.collectibles} =
         {[rect |-> Rect(rc[2] * TILE_SIZE + (TILE_SIZE - 16) \div 2,
                         rc[1] * TILE_SIZE + (TILE_SIZE - 16) \div 2, 16, 16),
           value |-> 1, collected |-> FALSE] : rc \in CellsOf(level_text, "C")}
    /\ IF CellsOf(level_text, "P") = {}
       THEN level_data.player_spawn = << TILE_SIZE, TILE_SIZE >>
       ELSE \E rc \in CellsOf(level_text, "P") :
              level_data.player_spawn =
                << rc[2] * TILE_SIZE, rc[1] * TILE_SIZE - TILE_SIZE >>
    /\ IF CellsOf(level_text, "G") = {}
       THEN level_data.goal = Rect(0, 0, TILE_SIZE, TILE_SIZE * 2)
       ELSE \E rc \in CellsOf(level_text, "G") :
              level_data.goal = Rect(rc[2] * TILE_SIZE, rc[1] * TILE_SIZE - TILE_SIZE,
                                     TILE_SIZE, TILE_SIZE * 2)
    /\ level_data.size_px =
         << LongestLine(level_text) * TILE_SIZE, Len(level_text) * TILE_SIZE >>

\* A ragged level with its longest line last, a solid, an unknown character
\* and no 'P' has been loaded.
RaggedLevelLoaded ==
  /\ load_error = "none"
  /\ Len(level_text) = 2
  /\ Len(level_text[1]) < Len(level_text[2])
  /\ CellsOf(level_text, "P") = {}
  /\ CellsOf(level_text, "#") # {}
  /\ CellsOf(level_text, "x") # {}
  /\ level_data.player_spawn = << TILE_SIZE, TILE_SIZE >>

\* C12 (load errors): loading an empty grid fails with LevelFormatError,
\* loading a missing level source fails with LevelNotFound, and neither
\* returns a LevelData.
LoadFailsAsNamed ==
  /\ (level_found /\ level_text = << >>) =>
       (load_error = "LevelFormatError" /\ level_data = Unbound)
  /\ ~level_found =>
       (load_error = "LevelNotFound" /\ level_data = Unbound)

\* Loading has failed and main() holds no LevelData.
LoadFailed == load_error # "none" /\ level_data = Unbound

\* C13 (reset): reset_level, from any state, leaves the freshly loaded
\* level (every collectible uncollected, every enemy at its load position
\* with velocity +140), a new Player at the spawn, score 0 and
\* level_complete false, whatever the state before, and leaves the death
\* count as it was.  (A step that ends with no frame observed and no jump
\* request pending is a reset.)
ResetReplacesState ==
  [][(~last'.stepped /\ ~player'.jump_requested) =>
       /\ level_data' = LoadLevel(level_text)
       /\ \A k \in DOMAIN level_data'.collectibles :
            ~level_data'.collectibles[k].collected
       /\ \A k \in DOMAIN level_data'.enemies :
            /\ level_data'.enemies[k].vx = 140
            /\ level_data'.enemies[k].vy = FZero
       /\ player' = [x |-> level_data'.player_spawn[1],
                     y |-> level_data'.player_spawn[2],
                     vx |-> 0, vy |-> FZero, on_ground |-> FALSE,
                     coyote_timer |-> FZero, jump_requested |-> FALSE]
       /\ score' = 0
       /\ ~level_complete'
       /\ deaths' = deaths]_vars

\* The level has been reset after a death: the count survived the reset.
ResetAfterDeath ==
  ~last.stepped /\ ~player.jump_requested /\ deaths >= 1 /\ score = 0

\* C14 (malformed dt): an update given dt <= 0 behaves as one given a small
\* positive dt: across Player.update coyote_timer does not decrease (but
\* for the return to 0 on the ground) and gravity increases velocity.y, and
\* across Enemy.update gravity increases velocity.y.
DtClamped ==
  last.updated =>
    /\ ~last.ct_drop
    /\ last.gv > 0
    /\ \A k \in DOMAIN last.egv : last.egv[k] > 0

\* An update has run in a run whose frame times are not positive.
MalformedDtStepped == last.updated /\ \A dt \in frame_times : dt <= 0

\* C15 (velocity.x is kept): every Player.update ends with velocity.x =
\* input_axis * MOVE_SPEED, clamped against a wall or not, while a vertical
\* clamp of the same update leaves velocity.y = 0 for the jump evaluation.
VelocityXKept ==
  last.updated =>
    /\ last.vx_end = last.axis * MOVE_SPEED
    /\ last.vclamp => FIsZero(last.vy_res)

\* The player was clamped against a wall and against the floor in one
\* update and kept its velocity.x.
PressedIntoWall ==
  last.updated /\ last.hclamp /\ last.vclamp /\ last.vx_end # 0

\* C16 (no lateral clamping without input): an update with input_axis = 0
\* leaves the player's x as it was, whatever the box overlaps or touches;
\* and the player falling in the gap of GapGrid, with a tile touching each
\* of its sides, is never grounded there.
NoLateralClamp ==
  (last.updated /\ last.axis = 0) =>
    /\ last.dx = 0
    /\ level_text = GapGrid => ~last.og

\* The player has fallen through the gap of GapGrid to below its tiles, in
\* its own column.
FellThroughGap ==
  /\ level_text = GapGrid
  /\ last.updated /\ last.axis = 0
  /\ player.y >= 2 * TILE_SIZE
  /\ player.x = TILE_SIZE
  /\ deaths = 0

\* C17 (coyote timer bookkeeping): after every Player.update, on_ground
\* true implies coyote_timer = 0, and a player in the air that has not
\* jumped since it was last on the ground has coyote_timer equal to the sum
\* of the dt of the updates since then.
CoyoteBookkeeping ==
  /\ player.on_ground => player.coyote_timer = FZero
  /\ (~player.on_ground /\ ~airborne_jump) => player.coyote_timer = air_time

\* The player has been in the air for a lagging frame and a short one.
AirTimeOfTwoFrames ==
  /\ last.updated /\ ~player.on_ground /\ ~airborne_jump
  /\ air_time = FAdd(FloatOfRatio(100, 1000), FloatOfRatio(16, 1000))
  /\ player.coyote_timer = air_time

\* C18 (grace only after ground): an update jumps only if the player was
\* on_ground at the end of its collision resolution, or at the end of an
\* earlier update of the same Player no more than COYOTE_TIME of dt ago; a
\* Player that has never been on the ground does not jump in the air.
GraceOnlyAfterGround ==
  last.jumped => (last.og \/ (last.sg.ever /\ FLe(last.sg.t, COYOTE_TIME)))

\* An update evaluated a jump request for a Player that had never been on
\* the ground.
RequestBeforeGround == last.requested /\ ~last.og /\ ~last.sg.ever

\* C19 (no penetration after resolution): a Player or Enemy box that
\* overlaps no solid before an update, and whose truncated displacement on
\* each axis in that update is shorter than one tile, overlaps no solid after
\* the update.
NoPenetration ==
  last.updated =>
    /\ (last.pfree0 /\ last.psmall) => last.pfree1
    /\ \A k \in DOMAIN last.efree0 :
         (last.efree0[k] /\ last.esmall[k]) => last.efree1[k]

\* A free player was pushed out of a solid on both axes in one update, and
\* a free enemy walked into a wall.
ClampedOnBothAxes ==
  /\ last.updated /\ last.pfree0 /\ last.psmall
  /\ last.hclamp /\ last.vclamp
  /\ \E k \in DOMAIN last.ehit :
       last.ehit[k] /\ last.efree0[k] /\ last.esmall[k]

\* C20 (level completion ordering): a frame advances, then checks the
\* collectibles against the advanced box, then the enemies, then the goal
\* against the box left by the enemy check.  level_complete is true after a
\* frame exactly if it was true before or that box overlaps the goal, so it
\* stays true from frame to frame; a frame whose advanced box overlaps an
\* enemy counts one death, respawns the player, and completes the level only
\* if the spawn box overlaps the goal.
CompletionOrdering ==
  last.stepped =>
    /\ level_complete =
         (last.was_complete \/ Collide(PlayerRect(player), level_data.goal))
    /\ last.gain = last.due * COLLECTIBLE_VALUE
    /\ last.contacts >= 1 =>
         /\ last.dd = 1
         /\ [player EXCEPT !.jump_requested = FALSE]
              = NewPlayer(level_data.player_spawn)
         /\ level_complete =
              (\/ last.was_complete
               \/ Collide(PlayerRect(NewPlayer(level_data.player_spawn)),
                          level_data.goal))

\* The advanced box overlapped an enemy, the goal and a collectible in the
\* same frame: the collectible is scored, the death counted, the level not
\* completed.
DeathAtTheGoal ==
  /\ last.stepped /\ ~last.was_complete
  /\ last.contacts >= 1 /\ last.adv_goal /\ last.due = 1
  /\ last.dd = 1 /\ last.gain = COLLECTIBLE_VALUE
  /\ ~level_complete

====
